---------------------------- MODULE Spec2Model ----------------------------
(***************************************************************************)
(* Model of nxos_grpc.client.Client (src/nxos_grpc/client.py).             *)
(*                                                                         *)
(* Strings are sequences of one-character strings, so that splitting,      *)
(* prefixing, case folding and number formatting are computed as the       *)
(* library computes them.  urlparse is modelled after CPython 3            *)
(* urllib.parse (urlsplit, _splitnetloc, _hostinfo, hostname, port).       *)
(***************************************************************************)
EXTENDS Integers, Sequences, FiniteSets, TLC

VARIABLES
    client,         \* the Client object: its attributes, or why __init__ raised
    files_read,     \* credential files opened by __gen_credentials
    channels,       \* grpc.insecure_channel / grpc.secure_channel invocations
    call,           \* the public operation being served and its arguments
    stub_calls,     \* invocations of the gRPCConfigOperStub methods for `call`
    builder_calls,  \* invocations of build_response for `call`
    result,         \* what `call` returned or raised
    target_arg,     \* argument of a stand-alone __gen_target evaluation
    target_ret,     \* its outcome
    target_again,   \* outcome of __gen_target on the string the first evaluation returned
    xpath_arg,      \* arguments of a stand-alone __parse_xpath_to_json evaluation
    namespace_arg,
    json_ret        \* its outcome

vars == <<client, files_read, channels, call, stub_calls, builder_calls, result,
          target_arg, target_ret, target_again, xpath_arg, namespace_arg, json_ret>>

clientVars == <<client, files_read, channels, call, stub_calls, builder_calls, result>>
targetVars == <<target_arg, target_ret, target_again>>
xpathVars  == <<xpath_arg, namespace_arg, json_ret>>

-----------------------------------------------------------------------------
(* Bounds of the model.                                                    *)

MaxLen == 5          \* longest target string given to __gen_target
MaxPathLen == 5      \* longest xpath, in fragments, given to __parse_xpath_to_json

-----------------------------------------------------------------------------
(* Python values.                                                          *)

\* One shape for all of them: the text of a str / bytes, the items of a dict.
PyNone       == [t |-> "none",  s |-> <<>>, items |-> <<>>]
PyStr(s)     == [t |-> "str",   s |-> s,    items |-> <<>>]
PyBytes(s)   == [t |-> "bytes", s |-> s,    items |-> <<>>]
\* a dict keeps its items in insertion order; each item is [k |-> key text, v |-> value]
PyDict(kvs)  == [t |-> "dict",  s |-> <<>>, items |-> kvs]

\* Python truth value of None / str / bytes: None and the empty ones are falsy.
Truthy(v) == v.t # "none" /\ Len(v.s) > 0

\* Outcome of a call: a returned value or a raised exception.
Ok(v)          == [ok |-> TRUE,  val |-> v,    err |-> "",   msg |-> ""]
Raise(e, why)  == [ok |-> FALSE, val |-> <<>>, err |-> e,    msg |-> why]
NotRun         == [ok |-> FALSE, val |-> <<>>, err |-> "",   msg |-> "not run"]

-----------------------------------------------------------------------------
(* Character classes and string helpers (str methods used by urllib).      *)

LowerLetters == {"a", "b", "e", "n", "o", "s"}
UpperLetters == {"A", "B", "N", "S"}
Digits       == {"0", "1", "2", "3", "4", "5", "6", "7", "8", "9"}

IsAlpha(c) == c \in LowerLetters \cup UpperLetters
IsDigit(c) == c \in Digits

\* str.lower() on one character
ToLower(c) ==
    CASE c = "A" -> "a"
      [] c = "B" -> "b"
      [] c = "N" -> "n"
      [] c = "S" -> "s"
      [] OTHER   -> c

\* str.lower()
Lower(s) == [i \in 1..Len(s) |-> ToLower(s[i])]

DigitVal(c) ==
    CASE c = "0" -> 0 [] c = "1" -> 1 [] c = "2" -> 2 [] c = "3" -> 3
      [] c = "4" -> 4 [] c = "5" -> 5 [] c = "6" -> 6 [] c = "7" -> 7
      [] c = "8" -> 8 [] c = "9" -> 9

DigitChar(d) ==
    CASE d = 0 -> "0" [] d = 1 -> "1" [] d = 2 -> "2" [] d = 3 -> "3"
      [] d = 4 -> "4" [] d = 5 -> "5" [] d = 6 -> "6" [] d = 7 -> "7"
      [] d = 8 -> "8" [] d = 9 -> "9"

\* int(s) for a string of decimal digits
RECURSIVE StrToInt(_)
StrToInt(s) ==
    IF Len(s) = 0 THEN 0
    ELSE 10 * StrToInt(SubSeq(s, 1, Len(s) - 1)) + DigitVal(s[Len(s)])

\* "%i" % n for n >= 0
RECURSIVE IntToStr(_)
IntToStr(n) ==
    IF n < 10 THEN <<DigitChar(n)>>
    ELSE Append(IntToStr(n \div 10), DigitChar(n % 10))

\* s.find(c): the first index of c in s (1-based), 0 when c does not occur
Find(s, c) ==
    IF \E i \in 1..Len(s) : s[i] = c
    THEN CHOOSE i \in 1..Len(s) : s[i] = c /\ \A j \in 1..(i - 1) : s[j] # c
    ELSE 0

\* s.rfind(c): the last index of c in s, 0 when c does not occur
RFind(s, c) ==
    IF \E i \in 1..Len(s) : s[i] = c
    THEN CHOOSE i \in 1..Len(s) : s[i] = c /\ \A j \in (i + 1)..Len(s) : s[j] # c
    ELSE 0

\* s[i:] with a 1-based i
From(s, i) == SubSeq(s, i, Len(s))

\* a non-negative int, kept by its decimal digits
PyInt(n) == [t |-> "int", s |-> IntToStr(n), items |-> <<>>]

\* "//" in s
HasNetlocPrefix(s) == \E i \in 1..(Len(s) - 1) : s[i] = "/" /\ s[i + 1] = "/"


-----------------------------------------------------------------------------
(* urllib.parse.urlparse, as far as __gen_target reads its result.         *)

NetlocPrefix == <<"/", "/">>

\* scheme_chars of urllib.parse: letters, digits and "+-."
IsSchemeChar(c) == IsAlpha(c) \/ IsDigit(c) \/ c \in {"+", "-", "."}

\* urlsplit's scheme test: a ":" after a letter-led run of scheme characters
HasScheme(url) ==
    LET i == Find(url, ":") IN
    /\ i > 1
    /\ IsAlpha(url[1])
    /\ \A j \in 1..(i - 1) : IsSchemeChar(url[j])

UrlScheme(url) == IF HasScheme(url) THEN Lower(SubSeq(url, 1, Find(url, ":") - 1)) ELSE <<>>

\* what urlsplit goes on with once the scheme is cut off
AfterScheme(url) == IF HasScheme(url) THEN From(url, Find(url, ":") + 1) ELSE url

\* _splitnetloc(url, 2): the text after "//" up to the first of "/?#"
SplitNetloc(rest) ==
    LET body == From(rest, 3)
        stops == {i \in 1..Len(body) : body[i] \in {"/", "?", "#"}}
        delim == IF stops = {} THEN Len(body) + 1
                 ELSE CHOOSE i \in stops : \A j \in stops : i <= j
    IN SubSeq(body, 1, delim - 1)

\* ParseResult.netloc
UrlNetloc(url) ==
    LET rest == AfterScheme(url) IN
    IF Len(rest) >= 2 /\ SubSeq(rest, 1, 2) = NetlocPrefix THEN SplitNetloc(rest) ELSE <<>>

\* _hostinfo: netloc.rpartition("@")[2], then partition(":") (no "[" in the alphabet)
HostInfo(netloc) ==
    LET hostinfo == From(netloc, RFind(netloc, "@") + 1)
        colon    == Find(hostinfo, ":")
    IN  IF colon = 0
        THEN [hostname |-> hostinfo, port |-> PyNone]
        ELSE [hostname |-> SubSeq(hostinfo, 1, colon - 1),
              port     |-> IF Len(hostinfo) = colon THEN PyNone
                           ELSE PyStr(From(hostinfo, colon + 1))]

\* ParseResult.hostname: None when empty, else lower-cased
UrlHostname(netloc) ==
    LET h == HostInfo(netloc).hostname IN
    IF Len(h) = 0 THEN PyNone ELSE PyStr(Lower(h))

\* ParseResult.port: None, an int in 0..65535, or ValueError
UrlPort(netloc) ==
    LET p == HostInfo(netloc).port IN
    IF p.t = "none" THEN Ok(PyNone)
    ELSE IF \A i \in 1..Len(p.s) : IsDigit(p.s[i])
         THEN IF Len(p.s) <= 9 /\ StrToInt(p.s) <= 65535
              THEN Ok(PyInt(StrToInt(p.s)))
              ELSE Raise("ValueError", "Port out of range 0-65535")
         ELSE Raise("ValueError", "Port could not be cast to integer value")

\* "%s" % v for None or a str
FormatS(v) == IF v.t = "none" THEN <<"N", "o", "n", "e">> ELSE v.s

-----------------------------------------------------------------------------
(* Client.__gen_target                                                     *)

DefaultPort == 50051

\* the variant that cuts the user information off at the first "@" of the netloc
RECURSIVE GenTargetDropUser(_)
GenTargetDropUser(target) ==
    LET url    == IF HasNetlocPrefix(target) THEN target ELSE NetlocPrefix \o target
        netloc == UrlNetloc(url)
        port   == UrlPort(netloc)
    IN  IF Len(netloc) = 0 THEN Raise("ValueError", "Unable to parse netloc from target URL")
        ELSE IF ~port.ok THEN port
        ELSE IF port.val.t = "none"
             THEN GenTargetDropUser(FormatS(UrlHostname(netloc)) \o <<":">> \o IntToStr(DefaultPort))
             ELSE Ok(From(netloc, Find(netloc, "@") + 1))

\* the variant that reassembles with the netloc as written instead of the parsed host name
RECURSIVE GenTargetKeepCase(_)
GenTargetKeepCase(target) ==
    LET url    == IF HasNetlocPrefix(target) THEN target ELSE NetlocPrefix \o target
        netloc == UrlNetloc(url)
        port   == UrlPort(netloc)
    IN  IF Len(netloc) = 0 THEN Raise("ValueError", "Unable to parse netloc from target URL")
        ELSE IF ~port.ok THEN port
        ELSE IF port.val.t = "none"
             THEN GenTargetKeepCase(HostInfo(netloc).hostname \o <<":">> \o IntToStr(DefaultPort))
             ELSE Ok(netloc)

RECURSIVE GenTarget(_)
GenTarget(target) ==
    LET url    == IF HasNetlocPrefix(target) THEN target ELSE NetlocPrefix \o target
        netloc == UrlNetloc(url)
        port   == UrlPort(netloc)
    IN  IF Len(netloc) = 0 THEN Raise("ValueError", "Unable to parse netloc from target URL")
        ELSE IF ~port.ok THEN port
        ELSE IF port.val.t = "none"
             THEN GenTarget(FormatS(UrlHostname(netloc)) \o <<":">> \o IntToStr(DefaultPort))
             ELSE Ok(netloc)

-----------------------------------------------------------------------------
(* Stand-alone evaluation of __gen_target on every string up to MaxLen.    *)

TargetChars == {"a", "B", "7", ":", "/", "@"}

RECURSIVE StringsUpTo(_, _)
StringsUpTo(chars, n) ==
    IF n = 0 THEN {<<>>}
    ELSE LET shorter == StringsUpTo(chars, n - 1) IN
         shorter \cup {Append(s, c) : s \in {x \in shorter : Len(x) = n - 1}, c \in chars}

TargetStrings == StringsUpTo(TargetChars, MaxLen)

\* What the device side does with one stub invocation: a reply, or an RPC error.
Reply(data)   == [raised |-> FALSE, reply |-> data, code |-> ""]
RpcError(c)   == [raised |-> TRUE,  reply |-> "",   code |-> c]
StubOutcomes  == {Reply("reply"), RpcError("UNAVAILABLE"), RpcError("DEADLINE_EXCEEDED")}

\* The call being served, with every argument as the caller gave it.
CallRec(op, yang_path, namespace, request_id, path_is_payload, source, operation, default_operation, session_id, target, error_operation, session_id_to_kill, outcome) ==
    [op |-> op, yang_path |-> yang_path, namespace |-> namespace, request_id |-> request_id,
     path_is_payload |-> path_is_payload, source |-> source, operation |-> operation,
     default_operation |-> default_operation, session_id |-> session_id, target |-> target,
     error_operation |-> error_operation, session_id_to_kill |-> session_id_to_kill,
     outcome |-> outcome]

NoCall == CallRec("none", <<>>, <<>>, <<>>, <<>>, <<>>, <<>>, <<>>, <<>>, <<>>, <<>>, <<>>, Reply(""))

NoClient == [state |-> "absent"]

ClientIdle ==
    /\ client = NoClient
    /\ files_read = <<>>
    /\ channels = <<>>
    /\ call = NoCall
    /\ stub_calls = <<>>
    /\ builder_calls = <<>>
    /\ result = NotRun

TargetIdle == target_arg = <<>> /\ target_ret = NotRun /\ target_again = NotRun
XPathIdle  == xpath_arg = <<>> /\ namespace_arg = PyNone /\ json_ret = NotRun

InitTarget ==
    /\ ClientIdle
    /\ XPathIdle
    /\ target_arg \in TargetStrings
    /\ target_ret = NotRun
    /\ target_again = NotRun

\* target_ret = Client.__gen_target(target_arg)
ResolveTarget ==
    /\ target_ret = NotRun
    /\ target_ret' = GenTarget(target_arg)
    /\ UNCHANGED <<target_arg, target_again, clientVars, xpathVars>>

\* target_again = Client.__gen_target(target_ret), when the first evaluation returned
ResolveAgain ==
    /\ target_ret.ok
    /\ target_again = NotRun
    /\ target_again' = GenTarget(target_ret.val)
    /\ UNCHANGED <<target_arg, target_ret, clientVars, xpathVars>>

NextTarget == ResolveTarget \/ ResolveAgain

SpecTarget == InitTarget /\ [][NextTarget]_vars

-----------------------------------------------------------------------------
(* dict assignment, json.dumps and json.loads.                             *)
(* The text of a path or a namespace is a sequence of fragments: "/" and   *)
(* names that hold no quote, backslash or control character, so that       *)
(* json.dumps writes them unescaped.                                       *)

EmptyDict == PyDict(<<>>)

HasKey(d, key) == \E i \in 1..Len(d.items) : d.items[i].k = key

\* d[key] = value: replaces the value of an existing key in place, else appends
DictSet(d, key, value) ==
    IF HasKey(d, key)
    THEN PyDict([i \in 1..Len(d.items) |->
                    IF d.items[i].k = key THEN [k |-> key, v |-> value] ELSE d.items[i]])
    ELSE PyDict(Append(d.items, [k |-> key, v |-> value]))

\* d[key] for a key of d
DictGet(d, key) == d.items[CHOOSE i \in 1..Len(d.items) : d.items[i].k = key].v

Quote == "\""

\* json.dumps with the default separators (", " and ": ")
RECURSIVE Dumps(_)
RECURSIVE DumpItems(_)
DumpItems(kvs) ==
    IF Len(kvs) = 0 THEN <<>>
    ELSE <<Quote>> \o kvs[1].k \o <<Quote, ":", " ">> \o Dumps(kvs[1].v)
         \o (IF Len(kvs) = 1 THEN <<>> ELSE <<",", " ">> \o DumpItems(Tail(kvs)))

Dumps(v) ==
    IF v.t = "dict" THEN <<"{">> \o DumpItems(v.items) \o <<"}">>
    ELSE <<Quote>> \o v.s \o <<Quote>>

\* json.loads on the output of json.dumps: [v |-> the value read, rest |-> the text left]
ParseString(text) ==
    LET body  == Tail(text)
        close == Find(body, Quote)
    IN  [v |-> PyStr(SubSeq(body, 1, close - 1)), rest |-> From(body, close + 1)]

RECURSIVE ParseValue(_)
RECURSIVE ParseMembers(_, _)
ParseMembers(text, acc) ==
    LET key   == ParseString(text)
        val   == ParseValue(From(key.rest, 3))
        upd   == DictSet(acc, key.v.s, val.v)
    IN  IF val.rest[1] = "}"
        THEN [v |-> upd, rest |-> Tail(val.rest)]
        ELSE ParseMembers(From(val.rest, 3), upd)

ParseValue(text) ==
    IF text[1] = Quote THEN ParseString(text)
    ELSE IF text[2] = "}" THEN [v |-> EmptyDict, rest |-> From(text, 3)]
    ELSE ParseMembers(Tail(text), EmptyDict)

Loads(text) == ParseValue(text).v

-----------------------------------------------------------------------------
(* Client.__parse_xpath_to_json                                            *)

\* str.split("/")
RECURSIVE Split(_)
Split(s) ==
    LET i == Find(s, "/") IN
    IF i = 0 THEN <<s>> ELSE <<SubSeq(s, 1, i - 1)>> \o Split(From(s, i + 1))

NamespaceKey == <<"namespace">>

\* the loop over reversed(xpath_split): i runs from the last element down to the first
RECURSIVE FoldXPath(_, _, _, _)
FoldXPath(elements, i, xpath_dict, first) ==
    IF i = 0 THEN xpath_dict
    ELSE FoldXPath(elements, i - 1,
                   IF first THEN DictSet(xpath_dict, elements[i], EmptyDict)
                   ELSE PyDict(<<[k |-> elements[i], v |-> xpath_dict]>>),
                   FALSE)

ParseXpathToJson(xpath, namespace) ==
    IF ~Truthy(namespace)
    THEN Raise("ValueError", "Must include namespace if constructing from xpath!")
    ELSE LET xpath_split == Split(xpath)
             xpath_dict  == FoldXPath(xpath_split, Len(xpath_split), EmptyDict, TRUE)
         IN  Ok(Dumps(DictSet(xpath_dict, NamespaceKey, namespace)))

-----------------------------------------------------------------------------
(* Stand-alone evaluation of __parse_xpath_to_json.                        *)

PathFragments == {"a", "b", "/", "namespace"}
PathStrings   == StringsUpTo(PathFragments, MaxPathLen)
Namespaces    == {PyNone, PyStr(<<>>), PyStr(<<"ns1">>), PyStr(<<"a">>)}

InitXPath ==
    /\ ClientIdle
    /\ TargetIdle
    /\ xpath_arg \in PathStrings
    /\ namespace_arg \in Namespaces
    /\ json_ret = NotRun

\* json_ret = Client.__parse_xpath_to_json(xpath_arg, namespace_arg)
CompilePath ==
    /\ json_ret = NotRun
    /\ json_ret' = ParseXpathToJson(xpath_arg, namespace_arg)
    /\ UNCHANGED <<xpath_arg, namespace_arg, clientVars, targetVars>>

NextXPath == CompilePath

SpecXPath == InitXPath /\ [][NextXPath]_vars

-----------------------------------------------------------------------------
(* Client.__init__ and the helpers it calls.                               *)

CMaxLong == 2147483647

\* An omitted keyword argument is <<>>, a given one <<value>>.
Omitted == <<>>
Given(v) == <<v>>
OrDefault(arg, default) == IF arg = Omitted THEN default ELSE arg[1]

\* A number handed in as timeout: an int, a float counted in halves, or None.
IntArg(n)   == [unit |-> "int",  n |-> n]
HalfArg(n)  == [unit |-> "half", n |-> n]
NoneArg     == [unit |-> "none", n |-> 0]

\* int(x): an int as it is, a float truncated toward zero, TypeError for None
PyIntOf(x) ==
    CASE x.unit = "int"  -> [ok |-> TRUE, n |-> x.n, err |-> ""]
      [] x.unit = "half" -> [ok |-> TRUE,
                             n  |-> IF x.n >= 0 THEN x.n \div 2 ELSE -((-x.n) \div 2),
                             err |-> ""]
      [] OTHER           -> [ok |-> FALSE, n |-> 0, err |-> "TypeError"]

\* The files open() finds: a PEM file, an empty file; any other path does not exist.
FileExists(path) == path \in {<<"ca.pem">>, <<"empty.pem">>}
FileContent(path) == IF path = <<"ca.pem">> THEN <<"PEM">> ELSE <<>>

\* __gen_credentials: [ret |-> outcome, opened |-> the paths handed to open()]
GenCredentials(credentials, credentials_from_file) ==
    IF ~Truthy(credentials) THEN [ret |-> Ok(PyNone), opened |-> <<>>]
    ELSE IF credentials_from_file
         THEN IF FileExists(credentials.s)
              THEN [ret |-> Ok(PyBytes(FileContent(credentials.s))), opened |-> <<credentials.s>>]
              ELSE [ret |-> Raise("FileNotFoundError", "No such file or directory"),
                    opened |-> <<credentials.s>>]
         ELSE [ret |-> Ok(credentials), opened |-> <<>>]

\* __gen_options: the tuple of (key, value) overrides
GenOptions(tls_server_override) ==
    IF Truthy(tls_server_override)
    THEN <<[k |-> "grpc.ssl_target_name_override", v |-> tls_server_override.s]>>
    ELSE <<>>

\* grpc.insecure_channel(target) / grpc.secure_channel(target, channel_creds, options)
InsecureChannel(target) ==
    [kind |-> "insecure", target |-> target, credentials |-> PyNone, options |-> <<>>]
SecureChannel(target, credentials, options) ==
    [kind |-> "secure", target |-> target, credentials |-> credentials, options |-> options]

\* __gen_client: the channel it builds; the stub is bound to that channel
GenClient(target, credentials, options) ==
    IF ~Truthy(credentials) THEN InsecureChannel(target)
    ELSE SecureChannel(target, credentials, options)

NoChannel == [kind |-> "none", target |-> <<>>, credentials |-> PyNone, options |-> <<>>]

CtorArgs(target, username, password, timeout, credentials, credentials_from_file, tls_server_override) ==
    [target |-> target, username |-> username, password |-> password, timeout |-> timeout,
     credentials |-> credentials, credentials_from_file |-> credentials_from_file,
     tls_server_override |-> tls_server_override]

FailedClient(args, exc) ==
    [state |-> "failed", args |-> args, err |-> exc, username |-> "", password |-> "",
     timeout |-> 0, target |-> <<>>, credentials |-> PyNone, options |-> <<>>,
     handle |-> NoChannel]

ReadyClient(args, username, password, timeout, target, credentials, options, handle) ==
    [state |-> "ready", args |-> args, err |-> Ok(<<>>), username |-> username,
     password |-> password, timeout |-> timeout, target |-> target,
     credentials |-> credentials, options |-> options, handle |-> handle]

\* Client.__init__: the attributes in the order the code sets them; the first helper
\* that raises ends the construction.
NewClient(target, username, password, timeout, credentials, credentials_from_file, tls_server_override) ==
    LET args == CtorArgs(target, username, password, timeout, credentials,
                         credentials_from_file, tls_server_override)
        t    == PyIntOf(OrDefault(timeout, IntArg(CMaxLong)))
        tgt  == GenTarget(target)
        cred == GenCredentials(credentials, credentials_from_file)
        opts == GenOptions(tls_server_override)
        chan == GenClient(tgt.val, cred.ret.val, opts)
    IN  /\ client = NoClient
        /\ IF ~t.ok
           THEN /\ client' = FailedClient(args, Raise(t.err, "int() argument"))
                /\ UNCHANGED <<files_read, channels>>
           ELSE IF ~tgt.ok
           THEN /\ client' = FailedClient(args, tgt)
                /\ UNCHANGED <<files_read, channels>>
           ELSE IF ~cred.ret.ok
           THEN /\ client' = FailedClient(args, cred.ret)
                /\ files_read' = files_read \o cred.opened
                /\ UNCHANGED channels
           ELSE /\ client' = ReadyClient(args, username, password, t.n, tgt.val,
                                         cred.ret.val, opts, chan)
                /\ files_read' = files_read \o cred.opened
                /\ channels' = Append(channels, chan)
        /\ UNCHANGED <<call, stub_calls, builder_calls, result, targetVars, xpathVars>>

-----------------------------------------------------------------------------
(* Request arguments, the stub and the response builder.                   *)

\* A proto.*Args message; fields a message type does not have stay at their defaults.
ProtoArgs(type, ReqID, YangPath, Source, Operation, SessionID, Target, DefOp, ErrorOp, SessionIDToKill) ==
    [type |-> type, ReqID |-> ReqID, YangPath |-> YangPath, Source |-> Source,
     Operation |-> Operation, SessionID |-> SessionID, Target |-> Target, DefOp |-> DefOp,
     ErrorOp |-> ErrorOp, SessionIDToKill |-> SessionIDToKill]

GetOperArgs(ReqID, YangPath) == ProtoArgs("GetOperArgs", ReqID, YangPath, "", "", 0, "", "", "", 0)
GetArgs(ReqID, YangPath) == ProtoArgs("GetArgs", ReqID, YangPath, "", "", 0, "", "", "", 0)
GetConfigArgs(ReqID, Source, YangPath) == ProtoArgs("GetConfigArgs", ReqID, YangPath, Source, "", 0, "", "", "", 0)
EditConfigArgs(YangPath, Operation, SessionID, ReqID, Target, DefOp, ErrorOp) == ProtoArgs("EditConfigArgs", ReqID, YangPath, "", Operation, SessionID, Target, DefOp, ErrorOp, 0)
SessionArgs(ReqID) == ProtoArgs("SessionArgs", ReqID, <<>>, "", "", 0, "", "", "", 0)
CloseSessionArgs(ReqID, SessionID) == ProtoArgs("CloseSessionArgs", ReqID, <<>>, "", "", SessionID, "", "", "", 0)
KillArgs(ReqID, SessionID, SessionIDToKill) == ProtoArgs("KillArgs", ReqID, <<>>, "", "", SessionID, "", "", "", SessionIDToKill)

\* build_response(reqid, response): the structured response with the request id and the reply
BuildResponse(reqid, reply) == [ReqID |-> reqid, reply |-> reply]

\* the variant that sends the password under both keys
GenMetadataPasswordTwice(c) == <<<<"username", c.password>>, <<"password", c.password>>>>

\* __gen_metadata
GenMetadata(c) == <<<<"username", c.username>>, <<"password", c.password>>>>

StubCall(c, method, request_args) ==
    [method |-> method, args |-> request_args, timeout |-> c.timeout, metadata |-> GenMetadata(c)]

BuilderCall(reqid, reply) == [reqid |-> reqid, reply |-> reply]

\* What one public operation did: the stub and builder invocations and its outcome.
\* `self` is the Client as the operation leaves it.
Effects(c, stubs, builds, ret) == [self |-> c, stubs |-> stubs, builds |-> builds, ret |-> ret]

\* the variant that invokes the stub a second time when the first invocation raised
FulfillRequestRetry(c, method, request_args, outcome) ==
    IF outcome.raised
    THEN Effects(c, <<StubCall(c, method, request_args), StubCall(c, method, request_args)>>, <<>>,
                 Raise("RpcError", outcome.code))
    ELSE Effects(c, <<StubCall(c, method, request_args)>>,
                 <<BuilderCall(request_args.ReqID, outcome.reply)>>,
                 Ok(BuildResponse(request_args.ReqID, outcome.reply)))

\* the variant that hands the builder a fixed request id
FulfillRequestNoEcho(c, method, request_args, outcome) ==
    IF outcome.raised
    THEN Effects(c, <<StubCall(c, method, request_args)>>, <<>>, Raise("RpcError", outcome.code))
    ELSE Effects(c, <<StubCall(c, method, request_args)>>,
                 <<BuilderCall(0, outcome.reply)>>,
                 Ok(BuildResponse(0, outcome.reply)))

\* __fulfill_request: request_args.ReqID is read, the stub method is invoked once with
\* the client's timeout and metadata; when it raises, build_response is not reached.
FulfillRequest(c, method, request_args, outcome) ==
    IF outcome.raised
    THEN Effects(c, <<StubCall(c, method, request_args)>>, <<>>, Raise("RpcError", outcome.code))
    ELSE Effects(c, <<StubCall(c, method, request_args)>>,
                 <<BuilderCall(request_args.ReqID, outcome.reply)>>,
                 Ok(BuildResponse(request_args.ReqID, outcome.reply)))

\* an operation that raised before it reached __fulfill_request
Raised(c, exc) == Effects(c, <<>>, <<>>, exc)

\* the variant that lets every value through
ValidateEnumArgLax(name, valid_options) == Ok(<<>>)

\* __validate_enum_arg: ValueError unless name is one of valid_options
ValidateEnumArg(name, valid_options) ==
    IF name \notin valid_options THEN Raise("ValueError", "must be one of") ELSE Ok(<<>>)

\* the first failure of a sequence of validations, Ok when all pass
RECURSIVE FirstFailure(_)
FirstFailure(checks) ==
    IF Len(checks) = 0 THEN Ok(<<>>)
    ELSE IF ~checks[1].ok THEN checks[1] ELSE FirstFailure(Tail(checks))

\* "if not path_is_payload: yang_path = self.__parse_xpath_to_json(yang_path, namespace)"
YangPayload(yang_path, namespace, path_is_payload) ==
    IF ~path_is_payload THEN ParseXpathToJson(yang_path, namespace) ELSE Ok(yang_path)

-----------------------------------------------------------------------------
(* The public operations.  Arguments with a default may be Omitted.        *)

SourceOptions    == {"running"}
OperationOptions == {"merge", "create", "replace", "delete", "remove"}
DefOpOptions     == {"merge", "replace", "none"}
TargetOptions    == {"running"}
ErrorOpOptions   == {"roll-back", "stop", "continue"}

GetOper(c, yang_path, namespace, request_id, path_is_payload, outcome) ==
    LET payload == YangPayload(yang_path, OrDefault(namespace, PyNone), OrDefault(path_is_payload, FALSE)) IN
    IF ~payload.ok THEN Raised(c, payload)
    ELSE FulfillRequest(c, "GetOper", GetOperArgs(OrDefault(request_id, 0), payload.val), outcome)

Get(c, yang_path, namespace, request_id, path_is_payload, outcome) ==
    LET payload == YangPayload(yang_path, OrDefault(namespace, PyNone), OrDefault(path_is_payload, FALSE)) IN
    IF ~payload.ok THEN Raised(c, payload)
    ELSE FulfillRequest(c, "Get", GetArgs(OrDefault(request_id, 0), payload.val), outcome)

GetConfig(c, yang_path, namespace, request_id, source, path_is_payload, outcome) ==
    LET src     == OrDefault(source, "running")
        valid   == ValidateEnumArg(src, SourceOptions)
        payload == YangPayload(yang_path, OrDefault(namespace, PyNone), OrDefault(path_is_payload, FALSE))
    IN  IF ~valid.ok THEN Raised(c, valid)
        ELSE IF ~payload.ok THEN Raised(c, payload)
        ELSE FulfillRequest(c, "GetConfig", GetConfigArgs(OrDefault(request_id, 0), src, payload.val), outcome)

EditConfig(c, yang_path, operation, default_operation, session_id, request_id, target, error_operation, outcome) ==
    LET op    == OrDefault(operation, "merge")
        defop == OrDefault(default_operation, "merge")
        tgt   == OrDefault(target, "running")
        errop == OrDefault(error_operation, "roll-back")
        valid == FirstFailure(<<ValidateEnumArg(op, OperationOptions),
                                ValidateEnumArg(defop, DefOpOptions),
                                ValidateEnumArg(tgt, TargetOptions),
                                ValidateEnumArg(errop, ErrorOpOptions)>>)
    IN  IF ~valid.ok THEN Raised(c, valid)
        ELSE FulfillRequest(c, "EditConfig",
                            EditConfigArgs(yang_path, op, OrDefault(session_id, 0),
                                           OrDefault(request_id, 0), tgt, defop, errop),
                            outcome)

StartSession(c, request_id, outcome) ==
    FulfillRequest(c, "StartSession", SessionArgs(OrDefault(request_id, 0)), outcome)

CloseSession(c, session_id, request_id, outcome) ==
    FulfillRequest(c, "CloseSession", CloseSessionArgs(OrDefault(request_id, 0), session_id), outcome)

KillSession(c, session_id, session_id_to_kill, request_id, outcome) ==
    FulfillRequest(c, "KillSession", KillArgs(OrDefault(request_id, 0), session_id, session_id_to_kill), outcome)

-----------------------------------------------------------------------------
(* The Client in use: one construction, then public operations one at a    *)
(* time; each call's request arguments and response are dropped before     *)
(* the next call.                                                          *)

Init ==
    /\ ClientIdle
    /\ TargetIdle
    /\ XPathIdle

\* a Client has been constructed and no call is being served
Idle == client.state = "ready" /\ call = NoCall

\* a public operation runs on the constructed Client and leaves `eff`
Serve(c, eff) ==
    /\ Idle
    /\ call' = c
    /\ client' = eff.self
    /\ stub_calls' = eff.stubs
    /\ builder_calls' = eff.builds
    /\ result' = eff.ret
    /\ UNCHANGED <<files_read, channels, targetVars, xpathVars>>

YangPaths     == {<<"a", "/", "b">>, <<"{", "}">>}
OpNamespaces  == {Omitted, Given(PyStr(<<>>)), Given(PyStr(<<"ns1">>))}
RequestIds    == {Omitted, Given(7)}
PayloadFlags  == {Omitted, Given(TRUE), Given(FALSE)}
SessionIds    == {3}
Sources       == {Omitted, Given("running"), Given("Running"), Given("candidate")}
Operations    == {Omitted, Given("merge"), Given("create"), Given("replace"), Given("delete"), Given("remove"), Given("Merge")}
DefOps        == {Omitted, Given("merge"), Given("replace"), Given("none"), Given("create")}
EditTargets   == {Omitted, Given("running"), Given("Running")}
ErrorOps      == {Omitted, Given("roll-back"), Given("stop"), Given("continue"), Given("rollback")}

CallGetOper ==
    /\ Idle
    /\ \E yang_path \in YangPaths, namespace \in OpNamespaces, request_id \in RequestIds,
       path_is_payload \in PayloadFlags, outcome \in StubOutcomes :
        Serve(CallRec("get_oper", yang_path, namespace, request_id, path_is_payload,
                      <<>>, <<>>, <<>>, <<>>, <<>>, <<>>, <<>>, outcome),
              GetOper(client, yang_path, namespace, request_id, path_is_payload, outcome))

CallGet ==
    /\ Idle
    /\ \E yang_path \in YangPaths, namespace \in OpNamespaces, request_id \in RequestIds,
       path_is_payload \in PayloadFlags, outcome \in StubOutcomes :
        Serve(CallRec("get", yang_path, namespace, request_id, path_is_payload,
                      <<>>, <<>>, <<>>, <<>>, <<>>, <<>>, <<>>, outcome),
              Get(client, yang_path, namespace, request_id, path_is_payload, outcome))

CallGetConfig ==
    /\ Idle
    /\ \E yang_path \in YangPaths, namespace \in OpNamespaces, request_id \in RequestIds,
       source \in Sources, path_is_payload \in PayloadFlags, outcome \in StubOutcomes :
        Serve(CallRec("get_config", yang_path, namespace, request_id, path_is_payload,
                      source, <<>>, <<>>, <<>>, <<>>, <<>>, <<>>, outcome),
              GetConfig(client, yang_path, namespace, request_id, source, path_is_payload, outcome))

CallEditConfig ==
    /\ Idle
    /\ \E yang_path \in {<<"{", "}">>}, operation \in Operations, default_operation \in DefOps,
       session_id \in {Omitted, Given(3)}, request_id \in RequestIds, target \in EditTargets,
       error_operation \in ErrorOps, outcome \in StubOutcomes :
        Serve(CallRec("edit_config", yang_path, <<>>, request_id, <<>>, <<>>, operation,
                      default_operation, session_id, target, error_operation, <<>>, outcome),
              EditConfig(client, yang_path, operation, default_operation, session_id,
                         request_id, target, error_operation, outcome))

CallStartSession ==
    /\ Idle
    /\ \E request_id \in RequestIds, outcome \in StubOutcomes :
        Serve(CallRec("start_session", <<>>, <<>>, request_id, <<>>, <<>>, <<>>, <<>>, <<>>,
                      <<>>, <<>>, <<>>, outcome),
              StartSession(client, request_id, outcome))

CallCloseSession ==
    /\ Idle
    /\ \E session_id \in SessionIds, request_id \in RequestIds, outcome \in StubOutcomes :
        Serve(CallRec("close_session", <<>>, <<>>, request_id, <<>>, <<>>, <<>>, <<>>,
                      Given(session_id), <<>>, <<>>, <<>>, outcome),
              CloseSession(client, session_id, request_id, outcome))

CallKillSession ==
    /\ Idle
    /\ \E session_id \in SessionIds, session_id_to_kill \in {4}, request_id \in RequestIds,
       outcome \in StubOutcomes :
        Serve(CallRec("kill_session", <<>>, <<>>, request_id, <<>>, <<>>, <<>>, <<>>,
                      Given(session_id), <<>>, <<>>, Given(session_id_to_kill), outcome),
              KillSession(client, session_id, session_id_to_kill, request_id, outcome))

\* the call has returned or raised: its RequestArgs and response go out of scope
Return ==
    /\ call # NoCall
    /\ call' = NoCall
    /\ stub_calls' = <<>>
    /\ builder_calls' = <<>>
    /\ result' = NotRun
    /\ UNCHANGED <<client, files_read, channels, targetVars, xpathVars>>

\* the credential arguments tried: none, inline PEM bytes, the path of a PEM file with a
\* TLS server name override
CredentialArgs ==
    {[credentials |-> PyNone, from_file |-> FALSE, tls_server_override |-> PyNone],
     [credentials |-> PyBytes(<<"PEM">>), from_file |-> FALSE, tls_server_override |-> PyNone],
     [credentials |-> PyStr(<<"ca.pem">>), from_file |-> TRUE, tls_server_override |-> PyStr(<<"srv">>)]}

Construct ==
    /\ client = NoClient
    /\ \E target \in {<<>>, <<"a">>}, username \in {"admin", "oper"},
          password \in {"secret"}, timeout \in {Omitted, Given(IntArg(30))},
          cred \in CredentialArgs :
           NewClient(target, username, password, timeout, cred.credentials, cred.from_file,
                     cred.tls_server_override)

Next ==
    \/ Construct
    \/ CallGetOper
    \/ CallGet
    \/ CallGetConfig
    \/ CallEditConfig
    \/ CallStartSession
    \/ CallCloseSession
    \/ CallKillSession
    \/ Return

Spec == Init /\ [][Next]_vars

-----------------------------------------------------------------------------
(* Construction alone, over a wider range of constructor arguments.        *)

CtorTargets ==
    {<<>>, <<"/", "/">>, <<"s", ":", "/", "/">>, <<":">>, <<"a", "@">>, <<":", "7">>,
     <<"a">>, <<"B">>, <<"a", ":">>, <<"a", ":", "7">>, <<"s", ":", "/", "/", "a">>}
CtorTimeouts ==
    {Omitted, Given(IntArg(0)), Given(IntArg(30)), Given(IntArg(-1)), Given(HalfArg(3)),
     Given(HalfArg(-1)), Given(IntArg(CMaxLong)), Given(NoneArg)}
CtorCredentials ==
    {PyNone, PyStr(<<>>), PyStr(<<"PEM">>), PyBytes(<<"PEM">>), PyStr(<<"ca.pem">>),
     PyStr(<<"empty.pem">>), PyStr(<<"missing.pem">>)}

ConstructAny ==
    /\ client = NoClient
    /\ \E target \in CtorTargets, username \in {"admin", "oper"}, password \in {"secret"},
       timeout \in CtorTimeouts, credentials \in CtorCredentials,
       credentials_from_file \in BOOLEAN,
       tls_server_override \in {PyNone, PyStr(<<>>), PyStr(<<"srv">>)} :
        NewClient(target, username, password, timeout, credentials, credentials_from_file,
                  tls_server_override)

NextNew == ConstructAny

SpecNew == Init /\ [][NextNew]_vars

-----------------------------------------------------------------------------
(* Properties of the target resolver (SpecTarget).                         *)

IsHostChar(c) == IsAlpha(c) \/ IsDigit(c)
IsHostName(h) == Len(h) > 0 /\ \A i \in 1..Len(h) : IsHostChar(h[i])

\* the position of "://" after a well-formed scheme, 0 when the string has none
SchemeMark(t) ==
    LET i == Find(t, ":") IN
    IF /\ i > 1
       /\ i + 2 <= Len(t)
       /\ t[i + 1] = "/" /\ t[i + 2] = "/"
       /\ IsAlpha(t[1])
       /\ \A j \in 1..(i - 1) : IsHostChar(t[j])
    THEN i ELSE 0

StripScheme(t) == IF SchemeMark(t) = 0 THEN t ELSE From(t, SchemeMark(t) + 3)
StripEmptyPort(t) == IF Len(t) > 0 /\ t[Len(t)] = ":" THEN SubSeq(t, 1, Len(t) - 1) ELSE t

\* the host of a string written as [scheme://]host[:]
BareHost(t) == StripEmptyPort(StripScheme(t))

\* a valid host string that carries no port: bare, with a scheme prefix, with an empty port
IsPortlessHost(t) == IsHostName(BareHost(t))

DefaultPortText == <<":", "5", "0", "0", "5", "1">>

\* the string ends in ":" and at least one digit
HasExplicitPort(v) ==
    LET i == RFind(v, ":") IN
    i > 0 /\ i < Len(v) /\ \A j \in (i + 1)..Len(v) : IsDigit(v[j])

Resolved == target_ret.msg # "not run"
ResolvedTwice == target_again.msg # "not run"

\* C2 as stated: a port-less valid host string resolves to the input's host followed by
\* ":50051", and no resolved target lacks an explicit port.
C2_InputHostPlusDefaultPort ==
    Resolved =>
        /\ IsPortlessHost(target_arg) =>
              target_ret.ok /\ target_ret.val = BareHost(target_arg) \o DefaultPortText
        /\ target_ret.ok => HasExplicitPort(target_ret.val)

\* C2 amended: a port-less valid host string resolves to the input's host in lower case
\* followed by exactly ":50051", and no resolved target lacks an explicit port.
C2_LoweredHostPlusDefaultPort ==
    Resolved =>
        /\ IsPortlessHost(target_arg) =>
              target_ret.ok /\ target_ret.val = Lower(BareHost(target_arg)) \o DefaultPortText
        /\ target_ret.ok => HasExplicitPort(target_ret.val)

\* an upper-case host behind a scheme prefix has been resolved
C2_Witness ==
    /\ Resolved
    /\ IsPortlessHost(target_arg)
    /\ SchemeMark(target_arg) > 0
    /\ Lower(BareHost(target_arg)) # BareHost(target_arg)
    /\ target_ret.ok

\* the authority of the string holds a port
HadPort(t) ==
    LET netloc == UrlNetloc(IF HasNetlocPrefix(t) THEN t ELSE NetlocPrefix \o t) IN
    /\ Len(netloc) > 0
    /\ HostInfo(netloc).port.t = "str"
    /\ \A i \in 1..Len(HostInfo(netloc).port.s) : IsDigit(HostInfo(netloc).port.s[i])

\* C4: for an input that already holds a port and resolves, resolving the result again
\* succeeds and returns the same string.
C4_IdempotentWithPort ==
    (HadPort(target_arg) /\ Resolved /\ target_ret.ok /\ ResolvedTwice) =>
        target_again.ok /\ target_again.val = target_ret.val

\* an input with a port, written differently from its resolution, has been resolved twice
C4_Witness ==
    /\ HadPort(target_arg)
    /\ Resolved /\ target_ret.ok
    /\ ResolvedTwice
    /\ target_ret.val # target_arg

-----------------------------------------------------------------------------
(* Properties of the path compiler (SpecXPath).                            *)

\* e1 -> {e2 -> ... {en -> {}}}, as the value under the outermost key
RECURSIVE Chain(_)
Chain(elements) ==
    IF Len(elements) = 0 THEN EmptyDict
    ELSE PyDict(<<[k |-> elements[1], v |-> Chain(Tail(elements))]>>)

Compiled == json_ret.msg # "not run"

\* C5: with a non-empty namespace the output decodes to an object of exactly two entries,
\* "namespace" -> ns and e1 -> the chain of the remaining elements down to {}.
C5_TwoTopLevelEntries ==
    (Compiled /\ Truthy(namespace_arg)) =>
        /\ json_ret.ok
        /\ LET obj      == Loads(json_ret.val)
               elements == Split(xpath_arg)
           IN  /\ obj.t = "dict"
               /\ Len(obj.items) = 2
               /\ HasKey(obj, NamespaceKey)
               /\ DictGet(obj, NamespaceKey) = namespace_arg
               /\ HasKey(obj, elements[1])
               /\ DictGet(obj, elements[1]) = Chain(Tail(elements))

-----------------------------------------------------------------------------
(* Properties of the construction (SpecNew).                               *)

Constructed == client.state = "ready"
Finished == client.state # "absent"

\* the construction supplied credential material: non-empty inline content, or the path
\* of a readable file
SuppliedCredentials(a) ==
    /\ Truthy(a.credentials)
    /\ a.credentials_from_file => FileExists(a.credentials.s)

\* the credential bytes such a construction supplied
SuppliedBytes(a) ==
    IF a.credentials_from_file THEN PyBytes(FileContent(a.credentials.s)) ELSE a.credentials

\* C1: with credentials=None only the insecure channel is built; with credential material
\* supplied only the secure channel is built, from those bytes and the options list.
C1_TransportByCredentials ==
    Constructed =>
        /\ client.args.credentials = PyNone =>
              channels = <<InsecureChannel(client.target)>>
        /\ SuppliedCredentials(client.args) =>
              channels = <<SecureChannel(client.target, SuppliedBytes(client.args),
                                         GenOptions(client.args.tls_server_override))>>

\* no host can be extracted: the authority is empty, or its host part is
NoHost(t) ==
    LET netloc == UrlNetloc(IF HasNetlocPrefix(t) THEN t ELSE NetlocPrefix \o t) IN
    Len(netloc) = 0 \/ Len(HostInfo(netloc).hostname) = 0

\* C3: a construction whose target has no extractable host fails with the invalid-target
\* ValueError, with no credential file read and no channel built.
C3_NoHostFailsFast ==
    (Finished /\ NoHost(client.args.target)
              /\ PyIntOf(OrDefault(client.args.timeout, IntArg(CMaxLong))).ok) =>
        /\ client.state = "failed"
        /\ client.err.err = "ValueError"
        /\ files_read = <<>>
        /\ channels = <<>>

\* C8: a constructed Client's timeout lies in 0..2147483647, and is 2147483647 when the
\* argument was omitted.
C8_TimeoutInRange ==
    Constructed =>
        /\ client.timeout >= 0
        /\ client.timeout <= CMaxLong
        /\ client.args.timeout = Omitted => client.timeout = CMaxLong

-----------------------------------------------------------------------------
(* Properties of the public operations (Spec).                             *)

Serving == call.op # "none"

IsGetOp(c) == c.op \in {"get", "get_oper", "get_config"}

\* an enum argument of the call lies outside its allowed set
InvalidEnum(c) ==
    \/ c.op = "get_config" /\ OrDefault(c.source, "running") \notin {"running"}
    \/ /\ c.op = "edit_config"
       /\ \/ OrDefault(c.operation, "merge") \notin {"merge", "create", "replace", "delete", "remove"}
          \/ OrDefault(c.default_operation, "merge") \notin {"merge", "replace", "none"}
          \/ OrDefault(c.target, "running") \notin {"running"}
          \/ OrDefault(c.error_operation, "roll-back") \notin {"roll-back", "stop", "continue"}

\* a path to compile came without a namespace
MissingNamespace(c) ==
    /\ IsGetOp(c)
    /\ ~OrDefault(c.path_is_payload, FALSE)
    /\ ~Truthy(OrDefault(c.namespace, PyNone))

\* the enum fields of the message a stub method received are members of their allowed sets
EnumsValid(sc) ==
    /\ sc.method = "GetConfig" => sc.args.Source \in {"running"}
    /\ sc.method = "EditConfig" =>
          /\ sc.args.Operation \in {"merge", "create", "replace", "delete", "remove"}
          /\ sc.args.DefOp \in {"merge", "replace", "none"}
          /\ sc.args.Target \in {"running"}
          /\ sc.args.ErrorOp \in {"roll-back", "stop", "continue"}

\* C6: a call with an enum argument outside its allowed set, or a get/get_oper/get_config
\* that has to compile a path without a namespace, raises ValueError and reaches no stub
\* method; every message that reaches the stub carries allowed enum values only.
C6_ValidationBeforeDispatch ==
    Serving =>
        /\ (InvalidEnum(call) \/ MissingNamespace(call)) =>
              stub_calls = <<>> /\ ~result.ok /\ result.err = "ValueError"
        /\ \A i \in 1..Len(stub_calls) : EnumsValid(stub_calls[i])

\* edit_config was called with operation "Merge" while the device would have replied
C6_Witness ==
    /\ call.op = "edit_config"
    /\ call.operation = Given("Merge")
    /\ ~call.outcome.raised
    /\ stub_calls = <<>>
    /\ ~result.ok

\* C7: get, get_oper and get_config dispatch the compiled path, or the given payload
\* unchanged when path_is_payload; the request id handed to the response builder and the
\* ReqID of the dispatched message are the call's request_id, 0 when omitted.
C7_PayloadAndRequestId ==
    Serving =>
        /\ (IsGetOp(call) /\ stub_calls # <<>>) =>
              stub_calls[1].args.YangPath =
                 IF OrDefault(call.path_is_payload, FALSE) THEN call.yang_path
                 ELSE ParseXpathToJson(call.yang_path, OrDefault(call.namespace, PyNone)).val
        /\ \A i \in 1..Len(stub_calls) : stub_calls[i].args.ReqID = OrDefault(call.request_id, 0)
        /\ \A i \in 1..Len(builder_calls) : builder_calls[i].reqid = OrDefault(call.request_id, 0)

\* get_oper compiled a path and its response was built for request id 7
C7_Witness ==
    /\ call.op = "get_oper"
    /\ call.path_is_payload = Omitted
    /\ call.namespace = Given(PyStr(<<"ns1">>))
    /\ call.request_id = Given(7)
    /\ builder_calls # <<>>
    /\ result.ok

MethodOf(op) ==
    CASE op = "get_oper"      -> "GetOper"
      [] op = "get"           -> "Get"
      [] op = "get_config"    -> "GetConfig"
      [] op = "edit_config"   -> "EditConfig"
      [] op = "start_session" -> "StartSession"
      [] op = "close_session" -> "CloseSession"
      [] op = "kill_session"  -> "KillSession"

\* C9: a call invokes the stub at most once: once, on the method of the operation, when its
\* validation passes; when that invocation raises, the call raises the same error, with no
\* second invocation and no response built.
C9_AtMostOneInvocation ==
    Serving =>
        /\ Len(stub_calls) <= 1
        /\ ~(InvalidEnum(call) \/ MissingNamespace(call)) =>
              Len(stub_calls) = 1 /\ stub_calls[1].method = MethodOf(call.op)
        /\ (stub_calls # <<>> /\ call.outcome.raised) =>
              /\ ~result.ok
              /\ result.err = "RpcError"
              /\ result.msg = call.outcome.code
              /\ builder_calls = <<>>

\* kill_session reached the stub, which raised
C9_Witness ==
    /\ call.op = "kill_session"
    /\ call.outcome.raised
    /\ Len(stub_calls) = 1
    /\ ~result.ok

\* every stub invocation carries the Client's username/password metadata and timeout, and
\* the Client's attributes are those its construction set
UniformCallContext ==
    /\ \A i \in 1..Len(stub_calls) :
          /\ stub_calls[i].metadata = <<<<"username", client.username>>, <<"password", client.password>>>>
          /\ stub_calls[i].timeout = client.timeout
    /\ Constructed =>
          /\ client.username = client.args.username
          /\ client.password = client.args.password
          /\ client.timeout = PyIntOf(OrDefault(client.args.timeout, IntArg(CMaxLong))).n
          /\ client.handle = channels[Len(channels)]

\* C10: every RPC invocation carries [("username", username), ("password", password)] and
\* the Client's timeout, and no step after the construction changes the Client.
C10_UniformMetadataAndFrame ==
    /\ []UniformCallContext
    /\ [][Constructed => client' = client]_vars

\* edit_config reached the stub on a Client whose timeout was given
C10_Witness ==
    /\ call.op = "edit_config"
    /\ stub_calls # <<>>
    /\ client.username = "oper"
    /\ client.args.timeout = Given(IntArg(30))

=============================================================================
